---- MODULE Spec2Model ----
(***************************************************************************)
(* Model of the dunkin storefront core: the cart store (CartContext:       *)
(* reducer, provider render, persistence effects), the box builder         *)
(* (BoxBuilderScreen), the donut detail screen's quantity stepper, the     *)
(* pickup screen's instant (PickupScreen), the reservation submission      *)
(* (ConfirmReservationScreen.onPlaceReservation) and the restart of the    *)
(* process over the stored cart.                                           *)
(*                                                                         *)
(* React state is modelled as the committed state variables plus the       *)
(* values captured by the last render (ctx, view): event handlers read     *)
(* the captured values, functional updaters and reducer dispatches act on  *)
(* the latest state, and Render is the step that refreshes the captured    *)
(* values and runs the effects.                                            *)
(*                                                                         *)
(* Prices are integers (euro cents); JS strings that the code trims are    *)
(* sequences of characters.                                                *)
(***************************************************************************)
EXTENDS Integers, Sequences, FiniteSets, TLC

VARIABLES
  state,        \* CartProvider useReducer state: [items |-> <<CartItem>>]
  ctx,          \* CartContextValue built by the last provider render
  pending,      \* what was set since the last render: "items", "screen"
  saveDue,      \* the save effect of the last render has not run yet
  nextId,       \* source of makeId() results
  storage,      \* AsyncStorage record under STORAGE_KEY
  saves,        \* AsyncStorage.setItem calls in flight, in issue order
  loadPc,       \* load effect: "reading", "read", "done"
  loadRaw,      \* value returned by AsyncStorage.getItem
  qty,          \* DonutDetailScreen useState(1)
  route,        \* BoxBuilderScreen route.params (boxId, boxSize, ...)
  selected,     \* BoxBuilderScreen useState<SelectedMap>({}), in key order
  customerName, \* ConfirmReservationScreen useState("")
  customerPhone,
  submitting,   \* ConfirmReservationScreen useState(false)
  now,          \* the clock, in half hours
  pickupAt,     \* PickupScreen useState<Date>: an instant
  loading,      \* PickupScreen useState(true)
  selectedStoreId, \* PickupScreen useState<string | null>(null)
  confirmRoute, \* ConfirmReservationScreen route.params
  view,         \* screen state captured by the last render
  subs,         \* onPlaceReservation invocations past validation
  reservations, \* remote table "reservations"
  reservationItems, \* remote table "reservation_items"
  remoteLog,    \* remote calls and their responses, in order
  alert,        \* title of the last Alert.alert
  last          \* the step that led to this state: its name, its input and
                \* the number of line items before it

vars == <<state, ctx, pending, saveDue, nextId, storage, saves, loadPc, loadRaw, qty,
          route, selected, customerName, customerPhone, submitting, now,
          pickupAt, loading, selectedStoreId, confirmRoute, view,
          subs, reservations, reservationItems, remoteLog, alert, last>>

cartVars    == <<state, nextId>>
persistVars == <<storage, saves, loadPc, loadRaw>>
detailVars  == <<qty>>
boxVars     == <<route, selected>>
formVars    == <<customerName, customerPhone, submitting>>
pickupVars  == <<now, pickupAt, loading, selectedStoreId, confirmRoute>>
remoteVars  == <<subs, reservations, reservationItems, remoteLog>>

----------------------------------------------------------------------------
(* Bounds of the model *)

MaxItems == 2    \* line items in the cart
MaxQty   == 2    \* largest quantity a line item or the stepper reaches
MaxIds   == 2    \* makeId() calls

(* JS values *)
Null      == "<null>"
Undefined == "<undefined>"

Field(r, k) == IF k \in DOMAIN r THEN r[k] ELSE Undefined

\* a ?? b
Coalesce(a, b) == IF a = Undefined \/ a = Null THEN b ELSE a

\* Math.max(a, b)
MathMax(a, b) == IF a >= b THEN a ELSE b

(* Catalog rows the screens read (products table): inputs of the model *)
DonutIds == {"d1", "d2"}
Variants == {"v1"}
DonutName(d)  == IF d = "d1" THEN "Glazed" ELSE "Choco"
DonutPrice(d) == IF d = "d1" THEN 180 ELSE 250

----------------------------------------------------------------------------
(* Cart store: src/unnamed/part_002 *)

STORAGE_KEY == "dunkin.cart.v1"

\* first index whose element satisfies P, 0 when none (JS: -1)
findIndex(s, P(_)) ==
  IF \E k \in 1..Len(s) : P(s[k])
  THEN CHOOSE k \in 1..Len(s) : P(s[k]) /\ \A j \in 1..(k - 1) : ~P(s[j])
  ELSE 0

SameDonutKey_ignoresVariant(i, p) ==
  /\ i.type = "donut"
  /\ i.productId = p.productId

SameDonutKey_strictVariant(i, p) ==
  /\ i.type = "donut"
  /\ i.productId = p.productId
  /\ Field(i, "variant") = Field(p, "variant")

\* the findIndex predicate of ADD_DONUT
SameDonutKey(i, p) ==
  /\ i.type = "donut"
  /\ i.productId = p.productId
  /\ Coalesce(Field(i, "variant"), Null) = Coalesce(Field(p, "variant"), Null)

MergeQty_overwrites(old, added) == added

\* copy[idx].qty + p.qty
MergeQty(old, added) == old + added

NewDonutItem(id, p) ==
  [id |-> id, type |-> "donut", productId |-> p.productId, name |-> p.name,
   unitPrice |-> p.unitPrice, qty |-> p.qty,
   imageUrl |-> Coalesce(Field(p, "imageUrl"), Null),
   variant |-> Coalesce(Field(p, "variant"), Null)]

NewBoxItem_withVariant(id, p) ==
  [id |-> id, type |-> "box", productId |-> p.productId, name |-> p.name,
   unitPrice |-> p.unitPrice, qty |-> p.qty,
   imageUrl |-> Coalesce(Field(p, "imageUrl"), Null),
   variant |-> "v1", choices |-> p.choices]

NewBoxItem(id, p) ==
  [id |-> id, type |-> "box", productId |-> p.productId, name |-> p.name,
   unitPrice |-> p.unitPrice, qty |-> p.qty,
   imageUrl |-> Coalesce(Field(p, "imageUrl"), Null),
   choices |-> p.choices]

Remove_dropsHead(items, cartItemId) ==
  IF Len(items) = 0 THEN items ELSE Tail(items)

\* state.items.filter((i) => i.id !== action.cartItemId)
Remove(items, cartItemId) ==
  SelectSeq(items, LAMBDA i : i.id # cartItemId)

SetQty_unclamped(i, q) == [i EXCEPT !.qty = q]

\* { ...i, qty: Math.max(1, action.qty) }
SetQty(i, q) == [i EXCEPT !.qty = MathMax(1, q)]

\* reducer(state, action); id is the value makeId() returns when called
Prepend_appends(item, items) == Append(items, item)

Prepend_twice(item, items) == <<item, item>> \o items

\* [newItem, ...state.items]
Prepend(item, items) == <<item>> \o items

reducer(st, action, id) ==
  CASE action.type = "LOAD" -> [items |-> action.items]
    [] action.type = "CLEAR" -> [items |-> <<>>]
    [] action.type = "REMOVE_ITEM" ->
         [items |-> Remove(st.items, action.cartItemId)]
    [] action.type = "ADD_DONUT" ->
         LET p   == action.payload
             idx == findIndex(st.items, LAMBDA i : SameDonutKey(i, p))
         IN IF idx > 0
            THEN [items |-> [st.items EXCEPT
                               ![idx].qty = MergeQty(st.items[idx].qty, p.qty)]]
            ELSE [items |-> Prepend(NewDonutItem(id, p), st.items)]
    [] action.type = "ADD_BOX" ->
         [items |-> Prepend(NewBoxItem(id, action.payload), st.items)]
    [] action.type = "SET_DONUT_QTY" ->
         [items |-> [k \in 1..Len(st.items) |->
                       IF st.items[k].id # action.cartItemId THEN st.items[k]
                       ELSE IF st.items[k].type # "donut" THEN st.items[k]
                       ELSE SetQty(st.items[k], action.qty)]]
    [] OTHER -> st

\* does the reducer call makeId() for this action in this state
CallsMakeId(st, action) ==
  \/ action.type = "ADD_BOX"
  \/ /\ action.type = "ADD_DONUT"
     /\ findIndex(st.items, LAMBDA i : SameDonutKey(i, action.payload)) = 0

RECURSIVE reduce(_, _, _)
\* items.reduce(f, acc)
reduce(items, f(_, _), acc) ==
  IF items = <<>> THEN acc ELSE reduce(Tail(items), f, f(acc, Head(items)))

totalCount_donutsOnly(items) ==
  reduce(items, LAMBDA sum, i : sum + (IF i.type = "donut" THEN i.qty ELSE 0), 0)

totalCount(items) ==
  reduce(items, LAMBDA sum, i : sum + (IF i.type = "donut" THEN i.qty ELSE i.qty), 0)

totalPrice(items) ==
  reduce(items, LAMBDA sum, i : sum + i.unitPrice * i.qty, 0)

\* a parsed JSON value that is not an array (an object, a number, null, ...),
\* held where the code expects the array of line items
NotArray == <<[notArray |-> TRUE]>>

IsArray(value) == value # NotArray

\* state.items.reduce is not a function: the render of CartProvider throws a
\* TypeError and, with no error boundary above it, the app is gone
Crashed == [crashed |-> TRUE]

\* the value object CartProvider hands to its consumers
CartContextValue(st) ==
  IF IsArray(st.items)
  THEN [items |-> st.items, totalCount |-> totalCount(st.items),
        totalPrice |-> totalPrice(st.items)]
  ELSE Crashed

----------------------------------------------------------------------------
(* Persistence: src/unnamed/part_002 lines 157-178 *)

\* getItem of a key that holds nothing resolves to null
NoRecord == [null |-> TRUE]

\* JSON.stringify(state.items): the serialized array
JSONstringify(items) == [text |-> items]

\* a record that is not JSON
InvalidJSON == [invalid |-> TRUE]

\* does JSON.parse(raw) throw a SyntaxError
JSONparseThrows(raw) == raw = InvalidJSON

\* JSON.parse(raw), cast to CartItem[] without a check
JSONparse(raw) == raw.text

----------------------------------------------------------------------------
(* Inputs of the handlers *)

QtyInputs == {0, 1, 2}

DonutPayloadBase(d, q) ==
  [productId |-> d, name |-> DonutName(d), unitPrice |-> DonutPrice(d),
   qty |-> q, imageUrl |-> Null]

WithVariant(p, v) ==
  [k \in DOMAIN p \cup {"variant"} |-> IF k = "variant" THEN v ELSE p[k]]

\* addDonut arguments: variant absent, null or a string
DonutPayloads ==
  {DonutPayloadBase("d1", q) : q \in QtyInputs}
    \cup {WithVariant(DonutPayloadBase("d1", q), v) :
            q \in QtyInputs, v \in {Null} \cup Variants}
    \cup {WithVariant(DonutPayloadBase("d2", q), Null) : q \in QtyInputs}

\* route.params of BoxBuilderScreen: the box products of the catalog
BoxRoutes ==
  {[boxId |-> "b1", boxSize |-> 1, boxName |-> "Solo", boxPrice |-> 300],
   [boxId |-> "b2", boxSize |-> 2, boxName |-> "Duo", boxPrice |-> 1200]}

BoxChoice(d, n) == [donutId |-> d, qty |-> n]

\* addBox arguments of the store-level calls
BoxPayloads ==
  {[productId |-> "b2", name |-> "Duo", unitPrice |-> 1200, boxSize |-> 2,
    donuts |-> ds] :
     ds \in {<<BoxChoice("d1", 1), BoxChoice("d2", 1)>>}}

CartItemIds == 1..MaxIds

----------------------------------------------------------------------------
(* Initial state: CartProvider mounted, first render committed, both        *)
(* effects started (getItem issued, then setItem of the empty list).        *)

\* instants are counted in half hours; a day has SlotsPerDay of them
MaxDay      == 1
SlotsPerDay == 2
HalfHour    == 1
Now0        == 1    \* the clock when the app starts

Instant(day, slot) == day * SlotsPerDay + slot
DayOf(t)  == t \div SlotsPerDay
SlotOf(t) == t % SlotsPerDay
MaxTime   == Instant(MaxDay, SlotsPerDay - 1)

\* Date.prototype.toISOString() and the instant such a string denotes
toISOString(t) == [iso |-> t]
FromISO(str) == str.iso

\* const d = new Date(); d.setMinutes(d.getMinutes() + 30)
InitialPickupAt(t) == t + HalfHour

NoRoute == [none |-> TRUE]

InitialView ==
  [selected |-> <<>>, qty |-> 1, customerName |-> <<>>, customerPhone |-> <<>>,
   submitting |-> FALSE, pickupAt |-> InitialPickupAt(Now0), loading |-> TRUE,
   selectedStoreId |-> Null]

InitCommon ==
  /\ state = [items |-> <<>>]
  /\ ctx = CartContextValue([items |-> <<>>])
  /\ pending = {}
  /\ saveDue = FALSE
  /\ nextId = 1
  /\ saves = <<JSONstringify(<<>>)>>
  /\ loadPc = "reading"
  /\ loadRaw = NoRecord
  /\ qty = 1
  /\ selected = <<>>
  /\ customerName = <<>>
  /\ customerPhone = <<>>
  /\ submitting = FALSE
  /\ now = Now0
  /\ pickupAt = InitialPickupAt(Now0)
  /\ loading = TRUE
  /\ selectedStoreId = Null
  /\ view = InitialView
  /\ subs = <<>>
  /\ reservations = <<>>
  /\ reservationItems = <<>>
  /\ remoteLog = <<>>
  /\ alert = "none"
  /\ last = [op |-> "mount"]

----------------------------------------------------------------------------
(* Cart store handlers (CartProvider value, lines 190-211) *)

\* dispatch(action): the reducer runs on the latest state
Dispatch(action) ==
  /\ state' = reducer(state, action, nextId)
  /\ nextId' = IF CallsMakeId(state, action) THEN nextId + 1 ELSE nextId
  /\ pending' = pending \cup {"items"}

\* bounds of the model on what a dispatch may produce
WithinBounds(action) ==
  LET st == reducer(state, action, nextId)
  IN /\ Len(st.items) <= MaxItems
     /\ CallsMakeId(state, action) => nextId <= MaxIds
     /\ \A k \in 1..Len(st.items) :
          st.items[k].qty \in 0..MaxQty

addDonut(p) ==
  LET action == [type |-> "ADD_DONUT", payload |-> p]
  IN /\ WithinBounds(action)
     /\ Dispatch(action)
     /\ last' = [op |-> "addDonut", p |-> p, n |-> Len(state.items)]
     /\ UNCHANGED <<ctx, saveDue, persistVars, detailVars, pickupVars, boxVars, formVars, view,
                    remoteVars, alert>>

AddBoxPayload_qtyOfSize(p) ==
  [productId |-> p.productId, name |-> p.name, unitPrice |-> p.unitPrice,
   qty |-> p.boxSize, imageUrl |-> Coalesce(Field(p, "imageUrl"), Null),
   choices |-> [boxSize |-> p.boxSize, donuts |-> p.donuts]]

\* the payload CartProvider.addBox builds from its argument
AddBoxPayload(p) ==
  [productId |-> p.productId, name |-> p.name, unitPrice |-> p.unitPrice,
   qty |-> 1, imageUrl |-> Coalesce(Field(p, "imageUrl"), Null),
   choices |-> [boxSize |-> p.boxSize, donuts |-> p.donuts]]

addBox(p) ==
  LET action == [type |-> "ADD_BOX", payload |-> AddBoxPayload(p)]
  IN /\ WithinBounds(action)
     /\ Dispatch(action)
     /\ last' = [op |-> "addBox", p |-> p, n |-> Len(state.items)]
     /\ UNCHANGED <<ctx, saveDue, persistVars, detailVars, pickupVars, boxVars, formVars, view,
                    remoteVars, alert>>

removeItem(id) ==
  /\ Dispatch([type |-> "REMOVE_ITEM", cartItemId |-> id])
  /\ last' = [op |-> "removeItem", id |-> id, n |-> Len(state.items)]
  /\ UNCHANGED <<ctx, saveDue, persistVars, detailVars, pickupVars, boxVars, formVars, view,
                 remoteVars, alert>>

clear ==
  /\ Dispatch([type |-> "CLEAR"])
  /\ last' = [op |-> "clear", n |-> Len(state.items), cleared |-> TRUE]
  /\ UNCHANGED <<ctx, saveDue, persistVars, detailVars, pickupVars, boxVars, formVars, view,
                 remoteVars, alert>>

setDonutQty(id, q) ==
  /\ Dispatch([type |-> "SET_DONUT_QTY", cartItemId |-> id, qty |-> q])
  /\ last' = [op |-> "setDonutQty", id |-> id, qty |-> q, n |-> Len(state.items)]
  /\ UNCHANGED <<ctx, saveDue, persistVars, detailVars, pickupVars, boxVars, formVars, view,
                 remoteVars, alert>>

----------------------------------------------------------------------------
(* DonutDetailScreen: src/dunkin/src/screens/PickupScreen.tsx lines 653-731 *)

\* setQty((q) => Math.max(1, q - 1))
decQty ==
  /\ qty' = MathMax(1, qty - 1)
  /\ pending' = pending \cup {"screen"}
  /\ last' = [op |-> "decQty"]
  /\ UNCHANGED <<cartVars, ctx, saveDue, persistVars, pickupVars, boxVars, formVars, view,
                 remoteVars, alert>>

\* setQty((q) => q + 1)
incQty ==
  /\ qty < MaxQty
  /\ qty' = qty + 1
  /\ pending' = pending \cup {"screen"}
  /\ last' = [op |-> "incQty"]
  /\ UNCHANGED <<cartVars, ctx, saveDue, persistVars, pickupVars, boxVars, formVars, view,
                 remoteVars, alert>>

\* onAdd for the loaded donut d with the selected variant v; qty is the
\* rendered value; goBack() unmounts the screen, the next one starts at 1
onAdd(d, v) ==
  LET p == WithVariant(DonutPayloadBase(d, view.qty), v)
      action == [type |-> "ADD_DONUT", payload |-> p]
  IN /\ WithinBounds(action)
     /\ Dispatch(action)
     /\ alert' = "Toegevoegd"
     /\ qty' = 1
     /\ view' = [view EXCEPT !.qty = 1]
     /\ last' = [op |-> "onAdd", p |-> p, n |-> Len(state.items)]
     /\ UNCHANGED <<ctx, saveDue, persistVars, pickupVars, boxVars, formVars,
                    remoteVars>>

----------------------------------------------------------------------------
(* Render and the CartProvider effects *)

MaxSaves == 2    \* setItem calls in flight at once

CapturedView ==
  [selected |-> selected, qty |-> qty, customerName |-> customerName,
   customerPhone |-> customerPhone, submitting |-> submitting,
   pickupAt |-> pickupAt, loading |-> loading,
   selectedStoreId |-> selectedStoreId]

\* clear() was the last change of the cart
AfterClear == "cleared" \in DOMAIN last /\ last.cleared

\* the record that was in storage when the process started, as long as the
\* cart has not been changed by the user since
StartRecord == IF "start" \in DOMAIN last THEN last.start ELSE NoRecord

\* React commits the pending updates in one pass: the provider rebuilds its
\* value, the screens capture their state, and the save effect
\* (deps [state.items]) becomes due when state.items was replaced
Render ==
  /\ pending # {}
  /\ ctx' = CartContextValue(state)
  /\ view' = CapturedView
  /\ saveDue' = (IsArray(state.items) /\ (saveDue \/ "items" \in pending))
  /\ pending' = {}
  /\ last' = [op |-> "render", cleared |-> AfterClear, start |-> StartRecord]
  /\ UNCHANGED <<cartVars, storage, saves, loadPc, loadRaw, detailVars, pickupVars,
                 boxVars, formVars, remoteVars, alert>>

\* the save effect of the committed render runs (lines 170-178): setItem is
\* issued with the rendered state.items and not awaited
SaveEffect ==
  /\ saveDue
  /\ Len(saves) < MaxSaves
  /\ saves' = Append(saves, JSONstringify(ctx.items))
  /\ saveDue' = FALSE
  /\ last' = [op |-> "saveEffect", cleared |-> AfterClear,
              start |-> StartRecord]
  /\ UNCHANGED <<cartVars, ctx, pending, storage, loadPc, loadRaw, detailVars, pickupVars,
                 boxVars, formVars, view, remoteVars, alert>>

DropAt(s, k) == [j \in 1..(Len(s) - 1) |-> IF j < k THEN s[j] ELSE s[j + 1]]

SaveCatch_surfaces ==
  /\ alert' = "Fout"
  /\ UNCHANGED <<cartVars, pending>>

\* catch (e) { console.error("Failed to save cart", e); }: the rejection is
\* logged and nothing else happens
SaveCatch == UNCHANGED <<cartVars, pending, alert>>

\* a setItem call settles: the record is written, or the call rejects and
\* the catch logs it
SaveSettles(k, ok) ==
  /\ k \in 1..Len(saves)
  /\ storage' = IF ok THEN saves[k] ELSE storage
  /\ saves' = DropAt(saves, k)
  /\ IF ok THEN UNCHANGED <<cartVars, pending, alert>> ELSE SaveCatch
  /\ last' = [op |-> "saveSettles", cleared |-> AfterClear, ok |-> ok,
              start |-> StartRecord]
  /\ UNCHANGED <<ctx, saveDue, loadPc, loadRaw, detailVars, pickupVars,
                 boxVars, formVars, view, remoteVars>>

\* AsyncStorage.getItem(STORAGE_KEY) settles: the record (null when there is
\* none), or a rejection that the catch logs
LoadSettles(ok) ==
  /\ loadPc = "reading"
  /\ loadPc' = IF ok THEN "read" ELSE "done"
  /\ loadRaw' = IF ok THEN storage ELSE loadRaw
  /\ last' = [op |-> "loadSettles", ok |-> ok, start |-> StartRecord,
              afterClear |-> (last.op = "restart" /\ last.afterClear)]
  /\ UNCHANGED <<cartVars, ctx, pending, saveDue, storage, saves, detailVars, pickupVars,
                 boxVars, formVars, view, remoteVars, alert>>

\* the load in progress is the one of a restart that followed a clear()
AfterClearedRestart == "afterClear" \in DOMAIN last /\ last.afterClear

\* the load effect resumes after the await (lines 161-163)
LoadResumes ==
  /\ loadPc = "read"
  /\ loadPc' = "done"
  /\ IF loadRaw = NoRecord
     THEN /\ UNCHANGED <<cartVars, pending>>
          /\ last' = [op |-> "loadNothing", start |-> StartRecord,
                      afterClear |-> AfterClearedRestart]
     ELSE IF JSONparseThrows(loadRaw)
     THEN /\ UNCHANGED <<cartVars, pending>>
          /\ last' = [op |-> "loadFailed", start |-> StartRecord,
                      afterClear |-> AfterClearedRestart]
     ELSE /\ Dispatch([type |-> "LOAD", items |-> JSONparse(loadRaw)])
          /\ last' = [op |-> "load", n |-> Len(state.items),
                      start |-> StartRecord,
                      afterClear |-> AfterClearedRestart]
  /\ UNCHANGED <<ctx, saveDue, storage, saves, loadRaw, detailVars, pickupVars, boxVars,
                 formVars, view, remoteVars, alert>>

\* records a previous session of the app can have left under STORAGE_KEY
PreviousCart ==
  <<NewDonutItem(0, WithVariant(DonutPayloadBase("d1", 2), Null))>>

StoredRecords ==
  {NoRecord, JSONstringify(<<>>), JSONstringify(PreviousCart)}

----------------------------------------------------------------------------
(* Spec: the cart store as a state machine, driven through the functions   *)
(* of its value object and by the restore at start.  The renders and the   *)
(* persistence writes are left to the other specifications: they do not    *)
(* write state.                                                             *)

Init ==
  /\ InitCommon
  /\ storage \in StoredRecords
  /\ confirmRoute = NoRoute
  /\ route = CHOOSE r \in BoxRoutes : r.boxSize = 2

Next ==
  \/ \E p \in DonutPayloads : addDonut(p)
  \/ \E p \in BoxPayloads : addBox(p)
  \/ \E id \in CartItemIds \cup {0} : removeItem(id)
  \/ clear
  \/ \E id \in CartItemIds \cup {0}, q \in QtyInputs : setDonutQty(id, q)
  \/ \E ok \in BOOLEAN : LoadSettles(ok)
  \/ LoadResumes

Spec == Init /\ [][Next]_vars

----------------------------------------------------------------------------
(* BoxBuilderScreen: src/dunkin/src/screens/PickupScreen.tsx lines 930-1043 *)

MaxOverfill == 1    \* donuts the selection may hold beyond boxSize

\* SelectedMap as the sequence of its entries in key order: string keys keep
\* their insertion order, so Object.entries/Object.values read it in order
Has(sel, donutId) == \E k \in 1..Len(sel) : sel[k].donutId = donutId

Put_newKeyFirst(sel, donutId, n) ==
  IF Has(sel, donutId)
  THEN [k \in 1..Len(sel) |->
          IF sel[k].donutId = donutId THEN [sel[k] EXCEPT !.qty = n] ELSE sel[k]]
  ELSE <<[donutId |-> donutId, qty |-> n]>> \o sel

\* { ...prev, [donutId]: n }: an existing key keeps its place, a new one is last
Put(sel, donutId, n) ==
  IF Has(sel, donutId)
  THEN [k \in 1..Len(sel) |->
          IF sel[k].donutId = donutId THEN [sel[k] EXCEPT !.qty = n] ELSE sel[k]]
  ELSE Append(sel, [donutId |-> donutId, qty |-> n])

\* const copy = { ...prev }; delete copy[donutId]
Delete(sel, donutId) == SelectSeq(sel, LAMBDA e : e.donutId # donutId)

\* prev[donutId] ?? 0
Current(sel, donutId) ==
  IF Has(sel, donutId)
  THEN (CHOOSE e \in {sel[k] : k \in 1..Len(sel)} : e.donutId = donutId).qty
  ELSE 0

\* Object.values(selected).reduce((sum, n) => sum + n, 0)
totalSelected(sel) == reduce(sel, LAMBDA sum, e : sum + e.qty, 0)

\* the values the last render derived (lines 969-974)
remaining == route.boxSize - totalSelected(view.selected)

IncGuard_readsState == route.boxSize - totalSelected(selected) <= 0

\* if (remaining <= 0) return;
IncGuard == remaining <= 0

IncUpdater(prev, donutId) == Put(prev, donutId, Current(prev, donutId) + 1)

DecUpdater_keepsZero(prev, donutId) ==
  IF Current(prev, donutId) = 0 THEN prev
  ELSE Put(prev, donutId, Current(prev, donutId) - 1)

DecUpdater(prev, donutId) ==
  IF Current(prev, donutId) <= 1
  THEN Delete(prev, donutId)
  ELSE Put(prev, donutId, Current(prev, donutId) - 1)

inc(donutId) ==
  /\ totalSelected(selected) < route.boxSize + MaxOverfill
  /\ IF IncGuard
     THEN UNCHANGED <<selected, pending>>
     ELSE /\ selected' = IncUpdater(selected, donutId)
          /\ pending' = pending \cup {"screen"}
  /\ last' = [op |-> "inc", donutId |-> donutId, blocked |-> IncGuard]
  /\ UNCHANGED <<cartVars, ctx, saveDue, persistVars, detailVars, pickupVars, route,
                 formVars, view, remoteVars, alert>>

dec(donutId) ==
  /\ selected' = DecUpdater(selected, donutId)
  /\ pending' = pending \cup {"screen"}
  /\ last' = [op |-> "dec", donutId |-> donutId,
              was |-> Current(selected, donutId)]
  /\ UNCHANGED <<cartVars, ctx, saveDue, persistVars, detailVars, pickupVars, route,
                 formVars, view, remoteVars, alert>>

\* clearSelection asks first; the Reset button of the alert does the reset
clearSelection ==
  /\ alert' = "Resetten?"
  /\ last' = [op |-> "clearSelection"]
  /\ UNCHANGED <<cartVars, ctx, pending, saveDue, persistVars, detailVars, pickupVars,
                 boxVars, formVars, view, remoteVars>>

\* onPress: () => setSelected({})
resetPressed ==
  /\ alert = "Resetten?"
  /\ selected' = <<>>
  /\ pending' = pending \cup {"screen"}
  /\ alert' = "none"
  /\ last' = [op |-> "reset"]
  /\ UNCHANGED <<cartVars, ctx, saveDue, persistVars, detailVars, pickupVars, route,
                 formVars, view, remoteVars>>

AddToCartGuard_atMost == totalSelected(view.selected) > route.boxSize

\* if (totalSelected !== boxSize) { Alert.alert("Doos niet vol", ...); return; }
AddToCartGuard == totalSelected(view.selected) # route.boxSize

donutsChoices_readsState ==
  [k \in 1..Len(selected) |->
     [donutId |-> selected[k].donutId, qty |-> selected[k].qty]]

\* Object.entries(selected).map(([donutId, qty]) => ({ donutId, qty }))
donutsChoices == [k \in 1..Len(view.selected) |->
                    [donutId |-> view.selected[k].donutId,
                     qty |-> view.selected[k].qty]]

\* the argument addToCart passes to addBox (lines 1032-1039)
AddToCartBox ==
  [productId |-> route.boxId, name |-> route.boxName,
   unitPrice |-> route.boxPrice, boxSize |-> route.boxSize,
   donuts |-> donutsChoices, imageUrl |-> Null]

addToCart ==
  IF AddToCartGuard
  THEN /\ alert' = "Doos niet vol"
       /\ last' = [op |-> "addToCart", added |-> FALSE, n |-> Len(state.items)]
       /\ UNCHANGED <<cartVars, ctx, pending, saveDue, persistVars, detailVars, pickupVars,
                      boxVars, formVars, view, remoteVars>>
  ELSE LET action == [type |-> "ADD_BOX", payload |-> AddBoxPayload(AddToCartBox)]
       IN /\ WithinBounds(action)
          /\ Dispatch(action)
          /\ alert' = "Toegevoegd !"
          /\ last' = [op |-> "addToCart", added |-> TRUE, n |-> Len(state.items)]
          /\ UNCHANGED <<ctx, saveDue, persistVars, detailVars, pickupVars, boxVars,
                         formVars, view, remoteVars>>

\* the builder is opened for a box product: a new screen instance
openBoxBuilder(r) ==
  /\ route' = r
  /\ selected' = <<>>
  /\ view' = [view EXCEPT !.selected = <<>>]
  /\ last' = [op |-> "openBoxBuilder"]
  /\ UNCHANGED <<cartVars, ctx, pending, saveDue, persistVars, detailVars, pickupVars,
                 formVars, remoteVars, alert>>

----------------------------------------------------------------------------
(* BoxSpec: the box builder with the cart it adds to *)

BoxInit ==
  /\ InitCommon
  /\ storage = NoRecord
  /\ confirmRoute = NoRoute
  /\ route \in BoxRoutes

BoxNext ==
  \/ \E d \in DonutIds : inc(d)
  \/ \E d \in DonutIds : dec(d)
  \/ clearSelection
  \/ resetPressed
  \/ addToCart
  \/ \E r \in BoxRoutes : openBoxBuilder(r)
  \/ Render

BoxSpec == BoxInit /\ [][BoxNext]_vars

----------------------------------------------------------------------------
(* ProviderSpec: the CartProvider with its renders and effects, the cart    *)
(* filled from DonutDetailScreen and by addBox, emptied from the checkout   *)
(* and restored at start.                                                   *)

ProviderInit ==
  /\ InitCommon
  /\ storage \in StoredRecords
  /\ confirmRoute = NoRoute
  /\ route = CHOOSE r \in BoxRoutes : r.boxSize = 2

ProviderNext ==
  \/ decQty
  \/ incQty
  \/ \E d \in DonutIds : onAdd(d, Null)
  \/ \E p \in BoxPayloads : addBox(p)
  \/ \E id \in CartItemIds : removeItem(id)
  \/ clear
  \/ \E id \in CartItemIds, q \in QtyInputs : setDonutQty(id, q)
  \/ \E ok \in BOOLEAN : LoadSettles(ok)
  \/ LoadResumes
  \/ Render

ProviderSpec == ProviderInit /\ [][ProviderNext]_vars

----------------------------------------------------------------------------
(* ConfirmReservationScreen: PickupScreen.tsx lines 349-448 and 510-520 *)

MaxSubs == 2    \* onPlaceReservation invocations that pass validation

\* texts typed into the name input
CustomerNames == {<<" ">>, <<" ", "T">>}

\* route.params of the screen when it is opened at the start with the
\* pickup instant PickupScreen starts with
ConfirmRoute ==
  [storeId |-> "s1", pickupAt |-> toISOString(InitialPickupAt(Now0))]

NoId == 0

RECURSIVE TrimStart(_)
TrimStart(str) ==
  IF str # <<>> /\ Head(str) = " " THEN TrimStart(Tail(str)) ELSE str

RECURSIVE TrimEnd(_)
TrimEnd(str) ==
  IF str # <<>> /\ str[Len(str)] = " "
  THEN TrimEnd(SubSeq(str, 1, Len(str) - 1))
  ELSE str

trim_missing(str) == str

\* String.prototype.trim()
trim(str) == TrimEnd(TrimStart(str))

\* customerPhone.trim() || null
PhoneOrNull(str) == IF trim(str) = <<>> THEN <<Null>> ELSE trim(str)

setCustomerName(text) ==
  /\ customerName' = text
  /\ pending' = pending \cup {"screen"}
  /\ last' = [op |-> "setCustomerName"]
  /\ UNCHANGED <<cartVars, ctx, saveDue, persistVars, detailVars, pickupVars, boxVars,
                 customerPhone, submitting, view, remoteVars, alert>>

ReservationRow_latestTotal ==
  [store_id |-> confirmRoute.storeId, pickup_at |-> confirmRoute.pickupAt,
   status |-> "pending", customer_name |-> trim(view.customerName),
   customer_phone |-> PhoneOrNull(view.customerPhone),
   total_price |-> totalPrice(state.items)]

\* the object passed to from("reservations").insert (lines 407-414)
ReservationRow ==
  [store_id |-> confirmRoute.storeId, pickup_at |-> confirmRoute.pickupAt,
   status |-> "pending", customer_name |-> trim(view.customerName),
   customer_phone |-> PhoneOrNull(view.customerPhone),
   total_price |-> ctx.totalPrice]

ItemRows_donutsOnly(items, reservationId) ==
  LET donuts == SelectSeq(items, LAMBDA i : i.type = "donut")
  IN [k \in 1..Len(donuts) |->
        [reservation_id |-> reservationId, product_id |-> donuts[k].productId,
         product_type |-> donuts[k].type, qty |-> donuts[k].qty,
         unit_price |-> donuts[k].unitPrice, name |-> donuts[k].name,
         variant |-> Coalesce(Field(donuts[k], "variant"), Null),
         choices |-> <<>>]]

\* items.map((i) => ({ reservation_id: reservationId, ... })) (lines 424-433)
ItemRows(items, reservationId) ==
  [k \in 1..Len(items) |->
     [reservation_id |-> reservationId, product_id |-> items[k].productId,
      product_type |-> items[k].type, qty |-> items[k].qty,
      unit_price |-> items[k].unitPrice, name |-> items[k].name,
      variant |-> Coalesce(Field(items[k], "variant"), Null),
      choices |-> IF "choices" \in DOMAIN items[k]
                  THEN <<items[k].choices>> ELSE <<>>]]

ReservationThrows_never(ok) == FALSE

\* if (resError) throw resError;
ReservationThrows(ok) == ~ok

ItemsThrows_never(ok) == FALSE

\* if (itemsError) throw itemsError;
ItemsThrows(ok) == ~ok

\* onPress of the submit Pressable (disabled={submitting}): the handler up
\* to its first await; items, totalPrice, customerName and customerPhone are
\* the values of the last render
onPlaceReservation ==
  /\ confirmRoute # NoRoute
  /\ ~view.submitting
  /\ IF Len(ctx.items) = 0
     THEN /\ alert' = "Leeg mandje"
          /\ last' = [op |-> "onPlaceReservation", outcome |-> "emptyCart"]
          /\ UNCHANGED <<pending, submitting, remoteVars>>
     ELSE IF trim(view.customerName) = <<>>
     THEN /\ alert' = "Naam nodig"
          /\ last' = [op |-> "onPlaceReservation", outcome |-> "nameRequired"]
          /\ UNCHANGED <<pending, submitting, remoteVars>>
     ELSE /\ Len(subs) < MaxSubs
          /\ submitting' = TRUE
          /\ pending' = pending \cup {"screen"}
          /\ subs' = Append(subs, [pc |-> "awaitReservation",
                                   items |-> ctx.items,
                                   reservationId |-> NoId])
          /\ remoteLog' = Append(remoteLog,
               [ev |-> "call", table |-> "reservations", sub |-> Len(subs) + 1,
                rows |-> <<ReservationRow>>, at |-> now])
          /\ last' = [op |-> "onPlaceReservation", outcome |-> "submitted"]
          /\ UNCHANGED <<reservations, reservationItems, alert>>
  /\ UNCHANGED <<cartVars, ctx, saveDue, persistVars, detailVars, pickupVars, boxVars,
                 customerName, customerPhone, view>>

\* the row of the call that sub issued to the table
CallOf(f, table) ==
  LET k == CHOOSE k \in 1..Len(remoteLog) :
             /\ remoteLog[k].ev = "call"
             /\ remoteLog[k].table = table
             /\ remoteLog[k].sub = f
  IN remoteLog[k]

CatchFinally_staysBusy(f) ==
  /\ alert' = "Fout"
  /\ submitting' = submitting
  /\ pending' = pending \cup {"screen"}
  /\ subs' = [subs EXCEPT ![f].pc = "failed"]

\* catch (e) { Alert.alert("Fout", ...) } finally { setSubmitting(false) }
CatchFinally(f) ==
  /\ alert' = "Fout"
  /\ submitting' = FALSE
  /\ pending' = pending \cup {"screen"}
  /\ subs' = [subs EXCEPT ![f].pc = "failed"]

\* the reservations insert of submission f settles and the handler runs on
\* to the reservation_items insert (lines 416-435), or to catch/finally
reservationSettles(f, ok) ==
  /\ f \in 1..Len(subs)
  /\ subs[f].pc = "awaitReservation"
  /\ LET id == Len(reservations) + 1
     IN IF ok
        THEN /\ reservations' =
                  Append(reservations,
                         [id |-> id, row |-> CallOf(f, "reservations").rows[1]])
             /\ IF ReservationThrows(ok)
                THEN /\ CatchFinally(f)
                     /\ remoteLog' = Append(remoteLog,
                          [ev |-> "ok", table |-> "reservations", sub |-> f,
                           id |-> id])
                ELSE /\ subs' = [subs EXCEPT ![f].pc = "awaitItems",
                                             ![f].reservationId = id]
                     /\ remoteLog' = remoteLog \o
                          <<[ev |-> "ok", table |-> "reservations", sub |-> f,
                             id |-> id],
                            [ev |-> "call", table |-> "reservation_items",
                             sub |-> f, rows |-> ItemRows(subs[f].items, id)]>>
                     /\ UNCHANGED <<alert, submitting, pending>>
        ELSE /\ UNCHANGED reservations
             /\ IF ReservationThrows(ok)
                THEN /\ CatchFinally(f)
                     /\ remoteLog' = Append(remoteLog,
                          [ev |-> "error", table |-> "reservations", sub |-> f])
                ELSE /\ subs' = [subs EXCEPT ![f].pc = "awaitItems"]
                     /\ remoteLog' = remoteLog \o
                          <<[ev |-> "error", table |-> "reservations", sub |-> f],
                            [ev |-> "call", table |-> "reservation_items",
                             sub |-> f, rows |-> ItemRows(subs[f].items, NoId)]>>
                     /\ UNCHANGED <<alert, submitting, pending>>
  /\ last' = [op |-> "reservationSettles", sub |-> f, ok |-> ok]
  /\ UNCHANGED <<cartVars, ctx, saveDue, persistVars, detailVars, pickupVars, boxVars,
                 customerName, customerPhone, view, reservationItems>>

AfterItemsInsert_compensates(f, ok) ==
  <<[ev |-> IF ok THEN "ok" ELSE "error", table |-> "reservation_items",
     sub |-> f]>>
  \o (IF ok THEN <<>>
      ELSE <<[ev |-> "call", table |-> "reservations", sub |-> f,
              rows |-> <<>>]>>)

\* what the remote log gains when the reservation_items insert settles: its
\* answer; neither branch of lines 436-447 issues a remote call
AfterItemsInsert(f, ok) ==
  <<[ev |-> IF ok THEN "ok" ELSE "error", table |-> "reservation_items",
     sub |-> f]>>

\* the reservation_items insert of submission f settles and the handler runs
\* to its end (lines 436-447)
itemsSettles(f, ok) ==
  /\ f \in 1..Len(subs)
  /\ subs[f].pc = "awaitItems"
  /\ reservationItems' =
       IF ok THEN reservationItems \o CallOf(f, "reservation_items").rows
       ELSE reservationItems
  /\ remoteLog' = remoteLog \o AfterItemsInsert(f, ok)
  /\ IF ItemsThrows(ok)
     THEN /\ CatchFinally(f)
          /\ UNCHANGED cartVars
     ELSE /\ Dispatch([type |-> "CLEAR"]) /\ submitting' = FALSE
          /\ alert' = "Gelukt"
          /\ subs' = [subs EXCEPT ![f].pc = "done"]
  /\ last' = [op |-> "itemsSettles", sub |-> f, ok |-> ok]
  /\ UNCHANGED <<ctx, saveDue, persistVars, detailVars, pickupVars, boxVars, customerName,
                 customerPhone, view, reservations>>

----------------------------------------------------------------------------
(* SubmitSpec: a cart filled through the store, the confirm screen's form,  *)
(* the submission and the remote backend's answers.                         *)

SubmitDonutPayloads == {WithVariant(DonutPayloadBase("d1", 1), Null)}

SubmitInit ==
  /\ InitCommon
  /\ storage = NoRecord
  /\ confirmRoute = ConfirmRoute
  /\ route = CHOOSE r \in BoxRoutes : r.boxSize = 2

SubmitNext ==
  \/ \E p \in SubmitDonutPayloads : addDonut(p)
  \/ \E p \in BoxPayloads : addBox(p)
  \/ \E text \in CustomerNames : setCustomerName(text)
  \/ onPlaceReservation
  \/ \E f \in 1..MaxSubs, ok \in BOOLEAN : reservationSettles(f, ok)
  \/ \E f \in 1..MaxSubs, ok \in BOOLEAN : itemsSettles(f, ok)
  \/ Render

SubmitSpec == SubmitInit /\ [][SubmitNext]_vars

\* the remote backend answers every call it was sent, with a row or with an
\* error: each awaited insert of each submission settles
BackendAnswers ==
  \A f \in 1..MaxSubs :
    /\ WF_vars(\E ok \in BOOLEAN : reservationSettles(f, ok))
    /\ WF_vars(\E ok \in BOOLEAN : itemsSettles(f, ok))

SubmitLiveSpec == SubmitSpec /\ BackendAnswers

----------------------------------------------------------------------------
(* PickupScreen: src/dunkin/src/screens/PickupScreen.tsx lines 35-128 and   *)
(* 216-243                                                                  *)

Days  == 0..MaxDay
Slots == 0..(SlotsPerDay - 1)

\* time passes
Tick ==
  /\ now < MaxTime
  /\ now' = now + 1
  /\ last' = [op |-> "tick"]
  /\ UNCHANGED <<cartVars, ctx, pending, saveDue, persistVars, detailVars,
                 boxVars, formVars, pickupAt, loading, selectedStoreId,
                 confirmRoute, view, remoteVars, alert>>

\* the stores query of the mount effect settles (lines 53-73): the first
\* store is selected, or the failure is reported
storesSettle(ok) ==
  /\ loading
  /\ loading' = FALSE
  /\ selectedStoreId' = IF ok THEN "s1" ELSE selectedStoreId
  /\ alert' = IF ok THEN alert ELSE "Fout"
  /\ pending' = pending \cup {"screen"}
  /\ last' = [op |-> "storesSettle", ok |-> ok]
  /\ UNCHANGED <<cartVars, ctx, saveDue, persistVars, detailVars, boxVars,
                 formVars, now, pickupAt, confirmRoute, view, remoteVars>>

\* next.setFullYear(d.getFullYear(), d.getMonth(), d.getDate())
WithDate(t, day) == Instant(day, SlotOf(t))

\* next.setHours(d.getHours(), d.getMinutes(), 0, 0)
WithTime(t, slot) == Instant(DayOf(t), slot)

\* onChange of the date picker with a chosen day (lines 219-225)
onDateChange(day) ==
  /\ ~view.loading
  /\ pickupAt' = WithDate(view.pickupAt, day)
  /\ pending' = pending \cup {"screen"}
  /\ last' = [op |-> "onDateChange"]
  /\ UNCHANGED <<cartVars, ctx, saveDue, persistVars, detailVars, boxVars,
                 formVars, now, loading, selectedStoreId, confirmRoute, view,
                 remoteVars, alert>>

\* onChange of the time picker with a chosen time (lines 234-240)
onTimeChange(slot) ==
  /\ ~view.loading
  /\ pickupAt' = WithTime(view.pickupAt, slot)
  /\ pending' = pending \cup {"screen"}
  /\ last' = [op |-> "onTimeChange"]
  /\ UNCHANGED <<cartVars, ctx, saveDue, persistVars, detailVars, boxVars,
                 formVars, now, loading, selectedStoreId, confirmRoute, view,
                 remoteVars, alert>>

\* onNext (lines 112-128); navigate mounts a ConfirmReservationScreen with
\* the route params and the initial state of its form
onNext ==
  /\ ~view.loading
  /\ IF Len(ctx.items) = 0
     THEN /\ alert' = "Leeg mandje"
          /\ last' = [op |-> "onNext", outcome |-> "emptyCart"]
          /\ UNCHANGED <<confirmRoute, formVars, view>>
     ELSE IF view.selectedStoreId = Null
     THEN /\ alert' = "Winkel kiezen"
          /\ last' = [op |-> "onNext", outcome |-> "noStore"]
          /\ UNCHANGED <<confirmRoute, formVars, view>>
     ELSE /\ confirmRoute' = [storeId |-> view.selectedStoreId,
                              pickupAt |-> toISOString(view.pickupAt)]
          /\ customerName' = <<>>
          /\ customerPhone' = <<>>
          /\ submitting' = FALSE
          /\ view' = [view EXCEPT !.customerName = <<>>, !.customerPhone = <<>>,
                                  !.submitting = FALSE]
          /\ last' = [op |-> "onNext", outcome |-> "navigate"]
          /\ UNCHANGED alert
  /\ UNCHANGED <<cartVars, ctx, pending, saveDue, persistVars, detailVars,
                 boxVars, now, pickupAt, loading, selectedStoreId, remoteVars>>

----------------------------------------------------------------------------
(* PickupSpec: from the pickup screen to the submission, with the clock;   *)
(* one donut is put in the empty cart and one submission is followed.      *)

PickupNames == {<<" ", "T">>}

PickupInit ==
  /\ InitCommon
  /\ storage = NoRecord
  /\ route = CHOOSE r \in BoxRoutes : r.boxSize = 2
  /\ confirmRoute = NoRoute

PickupNext ==
  \/ \E p \in SubmitDonutPayloads : state.items = <<>> /\ addDonut(p)
  \/ Tick
  \/ \E ok \in BOOLEAN : storesSettle(ok)
  \/ \E day \in Days : onDateChange(day)
  \/ \E slot \in Slots : onTimeChange(slot)
  \/ onNext
  \/ \E text \in PickupNames : setCustomerName(text)
  \/ subs = <<>> /\ onPlaceReservation
  \/ \E f \in 1..MaxSubs, ok \in BOOLEAN : reservationSettles(f, ok)
  \/ \E f \in 1..MaxSubs, ok \in BOOLEAN : itemsSettles(f, ok)
  \/ Render

PickupSpec == PickupInit /\ [][PickupNext]_vars

----------------------------------------------------------------------------
(* The process and its storage: restart, and PersistSpec *)

\* every write issued so far has settled and none is due
Settled == saves = <<>> /\ ~saveDue /\ pending = {}

\* the process ends and the app is started again: the memory is that of a
\* fresh start, the record under STORAGE_KEY stays, and the writes that
\* were still in flight are lost
Restart ==
  /\ state' = [items |-> <<>>]
  /\ ctx' = CartContextValue([items |-> <<>>])
  /\ pending' = {}
  /\ saveDue' = FALSE
  /\ saves' = <<JSONstringify(<<>>)>>
  /\ loadPc' = "reading"
  /\ loadRaw' = NoRecord
  /\ qty' = 1
  /\ selected' = <<>>
  /\ customerName' = <<>>
  /\ customerPhone' = <<>>
  /\ submitting' = FALSE
  /\ pickupAt' = InitialPickupAt(now)
  /\ loading' = TRUE
  /\ selectedStoreId' = Null
  /\ confirmRoute' = NoRoute
  /\ view' = [InitialView EXCEPT !.pickupAt = InitialPickupAt(now)]
  /\ alert' = "none"
  /\ last' = [op |-> "restart", afterClear |-> (AfterClear /\ Settled),
              start |-> storage]
  /\ UNCHANGED <<nextId, storage, route, now, remoteVars>>

\* the render has not thrown and the reducer has an array to work on
Alive == ctx # Crashed /\ IsArray(state.items)

\* records found under STORAGE_KEY at the start: none, one that is not JSON,
\* one that is JSON but not an array, and the cart of a previous session
PersistRecords ==
  {NoRecord, InvalidJSON, JSONstringify(NotArray), JSONstringify(PreviousCart)}

PersistInit ==
  /\ InitCommon
  /\ storage \in PersistRecords
  /\ route = CHOOSE r \in BoxRoutes : r.boxSize = 2
  /\ confirmRoute = NoRoute

PersistNext ==
  \/ \E p \in SubmitDonutPayloads : Alive /\ addDonut(p)
  \/ Alive /\ clear
  \/ Render
  \/ SaveEffect
  \/ \E k \in 1..MaxSaves : SaveSettles(k, TRUE)
  \/ \E ok \in BOOLEAN : LoadSettles(ok)
  \/ LoadResumes
  \/ Restart

PersistSpec == PersistInit /\ [][PersistNext]_vars

----------------------------------------------------------------------------
(* FaultSpec: the cart over a storage whose reads and writes can fail *)

FaultRecords == {NoRecord, InvalidJSON, JSONstringify(PreviousCart)}

FaultInit ==
  /\ InitCommon
  /\ storage \in FaultRecords
  /\ route = CHOOSE r \in BoxRoutes : r.boxSize = 2
  /\ confirmRoute = NoRoute

FaultNext ==
  \/ \E p \in SubmitDonutPayloads : addDonut(p)
  \/ \E id \in CartItemIds \cup {0} : removeItem(id)
  \/ clear
  \/ Render
  \/ SaveEffect
  \/ \E k \in 1..MaxSaves, ok \in BOOLEAN : SaveSettles(k, ok)
  \/ \E ok \in BOOLEAN : LoadSettles(ok)
  \/ LoadResumes

FaultSpec == FaultInit /\ [][FaultNext]_vars

----------------------------------------------------------------------------
(* Properties of the cart store, checked under Spec *)

\* the identity key of a donut line item or addDonut argument: the product
\* and the variant, an absent variant and a null variant being the same
IdentityKey(x) ==
  <<x.productId,
    IF "variant" \in DOMAIN x /\ x.variant # Null THEN x.variant ELSE "none">>

MatchingLines(items, p) ==
  {k \in 1..Len(items) :
     items[k].type = "donut" /\ IdentityKey(items[k]) = IdentityKey(p)}

AddDonutMerges(items, after, p) ==
  /\ Len(after) = Len(items)
  /\ \E k \in MatchingLines(items, p) :
       /\ after[k].qty = items[k].qty + p.qty
       /\ after = [items EXCEPT ![k].qty = after[k].qty]

AddDonutCreates(items, after, p) ==
  /\ Len(after) = Len(items) + 1
  /\ after[1].type = "donut"
  /\ IdentityKey(after[1]) = IdentityKey(p)
  /\ after[1].qty = p.qty
  /\ Tail(after) = items

\* C2: addDonut on a cart that holds a donut line with the same productId and
\* variant (absent = null) keeps the number of lines and adds the quantity to
\* that line; with any other productId or variant it creates a separate line.
C2_AddDonutMergesByIdentityKey ==
  [][last'.op \in {"addDonut", "onAdd"} =>
       IF MatchingLines(state.items, last'.p) # {}
       THEN AddDonutMerges(state.items, state'.items, last'.p)
       ELSE AddDonutCreates(state.items, state'.items, last'.p)]_vars

\* an addDonut without a variant merged into the line stored with variant
\* null, next to a line of the same product with another variant
C2_Witness ==
  /\ last.op = "addDonut"
  /\ "variant" \notin DOMAIN last.p
  /\ last.p.qty = 1
  /\ last.n = 2
  /\ Len(state.items) = 2
  /\ \E k, j \in 1..2 :
       /\ state.items[k].productId = last.p.productId
       /\ state.items[k].variant = Null
       /\ state.items[k].qty = 2
       /\ state.items[j].productId = last.p.productId
       /\ state.items[j].variant \in Variants

AllQtyPositive(items) == \A k \in 1..Len(items) : items[k].qty >= 1

\* C7 as claimed: every line item has quantity >= 1 in every reachable state,
\* whatever integer quantity addDonut is called with.
C7_QuantityAlwaysPositive == AllQtyPositive(state.items)

\* C7 as amended: every store operation keeps all quantities >= 1, except an
\* addDonut called with a quantity below 1, which the store accepts.
C7_QuantityPositivePreserved ==
  [][(/\ AllQtyPositive(state.items)
      /\ ~(last'.op \in {"addDonut", "onAdd"} /\ last'.p.qty < 1))
       => AllQtyPositive(state'.items)]_vars

\* setDonutQty with a quantity below 1 left the line at quantity 1
C7_Witness ==
  /\ last.op = "setDonutQty"
  /\ last.qty < 1
  /\ AllQtyPositive(state.items)
  /\ \E k \in 1..Len(state.items) :
       /\ state.items[k].id = last.id
       /\ state.items[k].type = "donut"
       /\ state.items[k].qty = 1

\* the list without the line whose id is given (ids are unique)
WithoutLine(items, id) ==
  LET K == {k \in 1..Len(items) : items[k].id = id}
  IN IF K = {} THEN items
     ELSE LET k == CHOOSE k \in K : TRUE
          IN SubSeq(items, 1, k - 1) \o SubSeq(items, k + 1, Len(items))

Ids(items) == {items[k].id : k \in 1..Len(items)}

\* ids are handed out in creation order: a most-recent-first list has them
\* in descending order
MostRecentFirst(items) ==
  \A j, k \in 1..Len(items) : j < k => items[j].id > items[k].id

SameButQty(a, b) == [a EXCEPT !.qty = 0] = [b EXCEPT !.qty = 0]

\* C12: an addDonut with an identity key no donut line has, and every addBox,
\* puts one new line with a fresh id in front of the unchanged list, so a
\* most-recent-first list stays most-recent-first; a merging addDonut keeps
\* the length of the list and every line, the merged one included, at its
\* position, changing only the merged line's quantity.
C12_NewLinesFirstMergedInPlace ==
  [][last'.op \in {"addDonut", "onAdd", "addBox"} =>
       IF last'.op = "addBox" \/ MatchingLines(state.items, last'.p) = {}
       THEN /\ Len(state'.items) = Len(state.items) + 1
            /\ Tail(state'.items) = state.items
            /\ state'.items[1].id \notin Ids(state.items)
            /\ state'.items[1].productId = last'.p.productId
            /\ MostRecentFirst(state.items) => MostRecentFirst(state'.items)
       ELSE /\ Len(state'.items) = Len(state.items)
            /\ \A k \in 1..Len(state.items) :
                 /\ SameButQty(state'.items[k], state.items[k])
                 /\ k \notin MatchingLines(state.items, last'.p) =>
                      state'.items[k] = state.items[k]]_vars

\* an addDonut merged into the line at the back of a two-line list, behind a
\* line created after it
C12_Witness ==
  /\ last.op = "addDonut"
  /\ last.n = 2
  /\ Len(state.items) = 2
  /\ MatchingLines(state.items, last.p) = {2}
  /\ state.items[2].qty = 2
  /\ state.items[1].id > state.items[2].id

\* C13: every addBox adds exactly one line: a box line of quantity 1 with the
\* given product and selections, in front of the unchanged list, also when a
\* box line of the same product with the same selections is in the cart.
C13_AddBoxAlwaysCreates ==
  [][last'.op = "addBox" =>
       /\ Len(state'.items) = Len(state.items) + 1
       /\ Tail(state'.items) = state.items
       /\ state'.items[1].type = "box"
       /\ state'.items[1].qty = 1
       /\ state'.items[1].productId = last'.p.productId
       /\ state'.items[1].choices =
            [boxSize |-> last'.p.boxSize, donuts |-> last'.p.donuts]
       /\ state'.items[1].id \notin Ids(state.items)]_vars

\* the same box was added twice: two box lines that differ in their id only
C13_Witness ==
  /\ last.op = "addBox"
  /\ last.n = 1
  /\ Len(state.items) = 2
  /\ state.items[1].id # state.items[2].id
  /\ [state.items[1] EXCEPT !.id = 0] = [state.items[2] EXCEPT !.id = 0]
  /\ state.items[1].type = "box"
  /\ state.items[1].qty = 1

\* does the line item carry box contents / a variant (null and absent: no)
CarriesChoices(i) == "choices" \in DOMAIN i

CarriesVariant(i) == Coalesce(Field(i, "variant"), Null) # Null

\* C22: in every reachable state of the store a line item of type donut
\* carries no box contents and a line item of type box carries no variant.
C22_ItemsAreTypeExclusive ==
  \A k \in 1..Len(state.items) :
    /\ state.items[k].type \in {"donut", "box"}
    /\ state.items[k].type = "donut" => ~CarriesChoices(state.items[k])
    /\ state.items[k].type = "box" => ~CarriesVariant(state.items[k])

\* setDonutQty ran on a cart that holds a donut line with a variant and a
\* box line with its contents
C22_Witness ==
  /\ last.op = "setDonutQty"
  /\ Len(state.items) = 2
  /\ \E k \in 1..2 : state.items[k].type = "donut" /\ CarriesVariant(state.items[k])
  /\ \E k \in 1..2 : state.items[k].type = "box" /\ CarriesChoices(state.items[k])

DonutLines(items) == {k \in 1..Len(items) : items[k].type = "donut"}

\* C27: in every reachable state of the store, no two donut lines of the
\* cart have the same identity key (productId, variant), an absent variant
\* and a null variant being the same key.
C27_OneDonutLinePerKey ==
  \A j, k \in DonutLines(state.items) :
    j # k => IdentityKey(state.items[j]) # IdentityKey(state.items[k])

\* an addDonut with variant null has merged into the one donut line of its
\* product, before the restore has read the record
C27_Witness ==
  /\ last.op = "addDonut"
  /\ "variant" \in DOMAIN last.p
  /\ last.p.variant = Null
  /\ last.p.qty = 1
  /\ last.n = 1
  /\ Len(state.items) = 1
  /\ state.items[1].type = "donut"
  /\ state.items[1].qty = 2
  /\ state.items[1].id = 1
  /\ loadPc = "reading"

\* C28: the step that applies the restore's LOAD keeps every line item that
\* is in the cart when it runs, that is every line added since the start of
\* the process and not removed since.
C28_RestoreKeepsSessionItems ==
  [][last'.op = "load" =>
       \A k \in 1..Len(state.items) :
         state.items[k].id \in Ids(state'.items)]_vars

----------------------------------------------------------------------------
(* Properties of the box builder, checked under BoxSpec *)

RECURSIVE SumQty(_)
SumQty(entries) ==
  IF entries = <<>> THEN 0 ELSE Head(entries).qty + SumQty(Tail(entries))

\* C1: the sum of the selected counts never exceeds the capacity of the box,
\* in the selection itself and in the total the screen derives from it, also
\* when several inc calls run before the next render.
C1_TotalNeverExceedsCapacity ==
  /\ SumQty(selected) <= route.boxSize
  /\ SumQty(view.selected) <= route.boxSize

\* C8: addToCart with a derived total other than the capacity reports
\* "Doos niet vol" and changes neither the cart nor the selection; a step of
\* addToCart that adds a line item is one whose derived total is the capacity.
C8_ConfirmFailsUnlessFull ==
  [][last'.op = "addToCart" =>
       /\ SumQty(view.selected) # route.boxSize =>
            /\ alert' = "Doos niet vol"
            /\ state' = state
            /\ selected' = selected
       /\ state'.items # state.items =>
            SumQty(view.selected) = route.boxSize]_vars

\* addToCart ran on a partly filled box of capacity 2 and was refused
C8_Witness ==
  /\ last.op = "addToCart"
  /\ ~last.added
  /\ alert = "Doos niet vol"
  /\ route.boxSize = 2
  /\ SumQty(view.selected) = 1
  /\ SumQty(selected) = 1
  /\ Len(state.items) = last.n

\* C9: every box line item the builder put in the cart holds selections whose
\* quantities add up to its boxSize.
C9_BoxItemsAreFull ==
  \A k \in 1..Len(state.items) :
    state.items[k].type = "box" =>
      SumQty(state.items[k].choices.donuts) = state.items[k].choices.boxSize

\* addToCart just added a box of capacity 2 made of two different donuts
C9_Witness ==
  /\ last.op = "addToCart"
  /\ last.added
  /\ Len(state.items) = last.n + 1
  /\ state.items[1].type = "box"
  /\ state.items[1].choices.boxSize = 2
  /\ Len(state.items[1].choices.donuts) = 2

Keys(sel) == [k \in 1..Len(sel) |-> sel[k].donutId]

CountOf(sel, donutId) ==
  LET K == {k \in 1..Len(sel) : sel[k].donutId = donutId}
  IN IF K = {} THEN 0 ELSE sel[CHOOSE k \in K : TRUE].qty

EntriesPositive(sel) == \A k \in 1..Len(sel) : sel[k].qty >= 1

\* C18: every entry of the selection has a count >= 1 after every step, and
\* a dec on a donut whose count is 1 or that has no entry leaves the
\* selection without an entry for it and the other entries as they were.
C18_NoEntryAtZero ==
  [][/\ EntriesPositive(selected')
     /\ EntriesPositive(view'.selected)
     /\ last'.op = "dec" =>
          /\ \A d \in DonutIds \ {last'.donutId} :
               CountOf(selected', d) = CountOf(selected, d)
          /\ CountOf(selected, last'.donutId) <= 1 =>
               \A k \in 1..Len(selected') :
                 selected'[k].donutId # last'.donutId]_vars

\* dec ran on a donut of count 1 next to another entry: its entry is gone
\* and the other one is kept
C18_Witness ==
  /\ last.op = "dec"
  /\ last.was = 1
  /\ Len(selected) = 1
  /\ selected[1].donutId # last.donutId
  /\ selected[1].qty = 1

\* C19: inc on a selection whose counts add up to the capacity leaves the
\* selection unchanged; on a selection below the capacity it raises the
\* count of that donut by 1 and leaves the other counts unchanged.
C19_IncFrame ==
  [][last'.op = "inc" =>
       /\ SumQty(selected) = route.boxSize => selected' = selected
       /\ SumQty(selected) < route.boxSize =>
            /\ CountOf(selected', last'.donutId) =
                 CountOf(selected, last'.donutId) + 1
            /\ \A d \in DonutIds \ {last'.donutId} :
                 CountOf(selected', d) = CountOf(selected, d)]_vars

Without(keys, donutId) == SelectSeq(keys, LAMBDA d : d # donutId)

\* C20: a step of addToCart that adds a box hands the cart the capacity and
\* the entries of the selection it was confirmed on, each donut once with its
\* count, in the order of the selection; and the order of the selection is
\* the order in which its current entries were created: inc puts a new entry
\* last and keeps the others in place, dec keeps the order of the entries it
\* leaves, and a render shows the selection in that order.
C20_SnapshotIsSelectionInCreationOrder ==
  [][/\ (last'.op = "addToCart" /\ last'.added) =>
          /\ state'.items[1].choices.boxSize = route.boxSize
          /\ Keys(state'.items[1].choices.donuts) = Keys(view.selected)
          /\ \A k \in 1..Len(view.selected) :
               /\ state'.items[1].choices.donuts[k].qty = view.selected[k].qty
               /\ \A j \in 1..Len(view.selected) :
                    j # k => view.selected[j].donutId # view.selected[k].donutId
          /\ SumQty(state'.items[1].choices.donuts) = route.boxSize
     /\ (last'.op = "inc" /\ ~last'.blocked) =>
          Keys(selected') =
            IF \E k \in 1..Len(selected) : selected[k].donutId = last'.donutId
            THEN Keys(selected)
            ELSE Append(Keys(selected), last'.donutId)
     /\ last'.op = "dec" =>
          Keys(selected') =
            IF last'.was <= 1 THEN Without(Keys(selected), last'.donutId)
            ELSE Keys(selected)
     /\ last'.op = "render" => view'.selected = selected]_vars

\* a box of capacity 2 was confirmed on a selection whose entries were
\* created d2 first, then d1
C20_Witness ==
  /\ last.op = "addToCart"
  /\ last.added
  /\ state.items[1].choices =
       [boxSize |-> 2,
        donuts |-> <<[donutId |-> "d2", qty |-> 1], [donutId |-> "d1", qty |-> 1]>>]
  /\ selected = view.selected

ComposeOps == {"inc", "dec", "clearSelection", "reset", "openBoxBuilder"}

\* C26: inc, dec, the reset of the selection and the opening of a new
\* builder (the old one left without confirming) leave the cart as it is,
\* and so does an addToCart on a selection that does not fill the box; an
\* addToCart on a full selection adds exactly one line, a box line of
\* quantity 1 of the builder's product, in front of the unchanged list.
C26_ComposingLeavesCartAlone ==
  [][/\ last'.op \in ComposeOps => (state' = state /\ nextId' = nextId)
     /\ last'.op = "addToCart" =>
          IF SumQty(view.selected) # route.boxSize
          THEN state' = state /\ nextId' = nextId
          ELSE /\ Len(state'.items) = Len(state.items) + 1
               /\ Tail(state'.items) = state.items
               /\ state'.items[1].type = "box"
               /\ state'.items[1].productId = route.boxId
               /\ state'.items[1].qty = 1
               /\ state'.items[1].id \notin Ids(state.items)]_vars

\* with a box of an earlier confirmation in the cart, a donut was picked for
\* the next box and taken out again
C26_Witness ==
  /\ last.op = "dec"
  /\ last.was = 1
  /\ selected = <<>>
  /\ view.selected # <<>>
  /\ Len(state.items) = 1
  /\ state.items[1].type = "box"
  /\ ctx.items = state.items

----------------------------------------------------------------------------
(* Properties of the derived totals, checked under ProviderSpec *)

RECURSIVE SumTo(_, _)
SumTo(numbers, n) ==
  IF n = 0 THEN 0 ELSE numbers[n] + SumTo(numbers, n - 1)

LinePrices(items) == [k \in 1..Len(items) |-> items[k].unitPrice * items[k].qty]

LineQtys(items) == [k \in 1..Len(items) |-> items[k].qty]

TotalsMatch(value, items) ==
  /\ value.totalPrice = SumTo(LinePrices(items), Len(items))
  /\ value.totalCount = SumTo(LineQtys(items), Len(items))

\* C6: in every reachable state the totals the provider hands out equal the
\* sum of unitPrice * qty and the sum of qty over the items handed out with
\* them, donut and box items alike, and the totals of the committed cart
\* equal the same sums over its items.
C6_TotalsAreSums ==
  /\ TotalsMatch(ctx, ctx.items)
  /\ TotalsMatch(CartContextValue(state), state.items)

\* a render handed out a donut line of quantity 2 and a box line
C6_Witness ==
  /\ last.op = "render"
  /\ Len(ctx.items) = 2
  /\ \E k \in 1..2 : ctx.items[k].type = "donut" /\ ctx.items[k].qty = 2
                     /\ ctx.items[k].unitPrice = 180
  /\ \E k \in 1..2 : ctx.items[k].type = "box" /\ ctx.items[k].unitPrice = 1200
  /\ ctx.totalCount = 3
  /\ ctx.totalPrice = 1560

----------------------------------------------------------------------------
(* Properties of the reservation submission, checked under SubmitSpec *)

FlowOps == {"onPlaceReservation", "reservationSettles", "itemsSettles"}

IsBlank(str) == \A k \in 1..Len(str) : str[k] = " "

StoredIn(table, id) == \E k \in 1..Len(table) : table[k].id = id

ReservationStored(id) == StoredIn(reservations, id)

RowsIn(table, id) ==
  Cardinality({k \in 1..Len(table) : table[k].reservation_id = id})

ItemRowsStored(id) == RowsIn(reservationItems, id)

\* C3: a step of a submission changes the cart only when it is the step on
\* which the reservation_items insert succeeded, after the reservations
\* insert succeeded: then the stored reservation and one stored row per
\* submitted item exist and the cart is empty.  When the reservation_items
\* insert fails after the reservations insert succeeded, the failure alert
\* is shown and the step leaves the cart as it was.
C3_ClearOnlyAfterBothInserts ==
  [][last'.op \in FlowOps =>
       /\ state' # state =>
            /\ last'.op = "itemsSettles" /\ last'.ok
            /\ state'.items = <<>>
            /\ StoredIn(reservations', subs[last'.sub].reservationId)
            /\ RowsIn(reservationItems', subs[last'.sub].reservationId)
                 = Len(subs[last'.sub].items)
            /\ RowsIn(reservationItems, subs[last'.sub].reservationId) = 0
       /\ (last'.op = "itemsSettles" /\ ~last'.ok) =>
            /\ ReservationStored(subs[last'.sub].reservationId)
            /\ alert' = "Fout"
            /\ state' = state
            /\ reservationItems' = reservationItems]_vars

\* the reservation_items insert failed after the reservations insert
\* succeeded, and the cart still holds the submitted items
C3_Witness ==
  /\ last.op = "itemsSettles" /\ ~last.ok
  /\ alert = "Fout"
  /\ Len(state.items) = 2
  /\ state.items = subs[last.sub].items
  /\ ReservationStored(subs[last.sub].reservationId)
  /\ ItemRowsStored(subs[last.sub].reservationId) = 0

\* C4: when onPlaceReservation runs with an empty cart, or with a customer
\* name that is empty after trimming, it issues no remote insert and leaves
\* the cart unchanged.
C4_ValidationFailureHasNoEffect ==
  [][(last'.op = "onPlaceReservation"
        /\ (ctx.items = <<>> \/ IsBlank(view.customerName))) =>
       /\ remoteLog' = remoteLog
       /\ subs' = subs
       /\ reservations' = reservations
       /\ reservationItems' = reservationItems
       /\ state' = state
       /\ submitting' = submitting
       /\ alert' \in {"Leeg mandje", "Naam nodig"}]_vars

\* a submission with items in the cart and a name of whitespace only was
\* turned down before any remote call
C4_Witness ==
  /\ last.op = "onPlaceReservation"
  /\ last.outcome = "nameRequired"
  /\ ctx.items # <<>>
  /\ view.customerName = <<" ">>
  /\ alert = "Naam nodig"
  /\ remoteLog = <<>>

ItemsCalls(f) ==
  {k \in 1..Len(remoteLog) :
     /\ remoteLog[k].ev = "call"
     /\ remoteLog[k].table = "reservation_items"
     /\ remoteLog[k].sub = f}

ReservationAnswers(f, ev) ==
  {k \in 1..Len(remoteLog) :
     /\ remoteLog[k].ev = ev
     /\ remoteLog[k].table = "reservations"
     /\ remoteLog[k].sub = f}

\* C5: every reservation_items insert of a submission is issued after that
\* submission's reservations insert returned successfully, and its rows
\* carry the identifier that insert returned; a submission whose
\* reservations insert failed issues no reservation_items insert.
C5_ItemsInsertAfterReservationInsert ==
  \A f \in 1..Len(subs) :
    /\ \A j \in ItemsCalls(f) :
         \E i \in ReservationAnswers(f, "ok") :
           /\ i < j
           /\ remoteLog[i].id # NoId
           /\ \A r \in 1..Len(remoteLog[j].rows) :
                remoteLog[j].rows[r].reservation_id = remoteLog[i].id
    /\ ReservationAnswers(f, "error") # {} => ItemsCalls(f) = {}

\* one submission failed at the reservations insert and another has issued
\* its reservation_items insert
C5_Witness ==
  \E f, g \in 1..Len(subs) :
    /\ ReservationAnswers(f, "error") # {}
    /\ subs[f].pc = "failed"
    /\ ItemsCalls(g) # {}
    /\ Len(remoteLog[CHOOSE j \in ItemsCalls(g) : TRUE].rows) = 2

InFlight == {f \in 1..Len(subs) : subs[f].pc \in {"awaitReservation", "awaitItems"}}

OutstandingReservationInserts == {f \in 1..Len(subs) : subs[f].pc = "awaitReservation"}

\* C15: at most one submission is in flight (between its reservations insert
\* and its end) and at most one reservations insert is outstanding, also
\* when the submit control is pressed again before the screen has rendered
\* submitting = true.
C15_AtMostOneSubmissionInFlight ==
  /\ Cardinality(InFlight) <= 1
  /\ Cardinality(OutstandingReservationInserts) <= 1

CallsOf(f) ==
  {k \in 1..Len(remoteLog) : remoteLog[k].ev = "call" /\ remoteLog[k].sub = f}

ItemsErrors(f) ==
  {k \in 1..Len(remoteLog) :
     /\ remoteLog[k].ev = "error"
     /\ remoteLog[k].table = "reservation_items"
     /\ remoteLog[k].sub = f}

\* C16: a submission whose reservation_items insert failed after its
\* reservations insert succeeded has issued its two inserts and no other
\* remote call, none after the failure, and the remote tables keep its
\* reservation with status pending and no reservation_items row for it.
C16_NoCompensationOnFailure ==
  \A f \in 1..Len(subs) :
    ItemsErrors(f) # {} =>
      /\ subs[f].pc = "failed"
      /\ Cardinality(CallsOf(f)) = 2
      /\ \A k \in CallsOf(f) : \A e \in ItemsErrors(f) : k < e
      /\ \E k \in 1..Len(reservations) :
           /\ reservations[k].id = subs[f].reservationId
           /\ reservations[k].row.status = "pending"
      /\ RowsIn(reservationItems, subs[f].reservationId) = 0

\* the reservation_items insert of a submission failed: its reservation is
\* stored and the handler has shown the failure and ended
C16_Witness ==
  /\ last.op = "itemsSettles" /\ ~last.ok
  /\ ItemsErrors(last.sub) # {}
  /\ Len(reservations) = 1
  /\ reservations[1].row.status = "pending"
  /\ reservationItems = <<>>
  /\ alert = "Fout"
  /\ ~submitting

\* the row a line item is to be written as, for the given reservation
RowOf(i, id) ==
  [reservation_id |-> id, product_id |-> i.productId, product_type |-> i.type,
   qty |-> i.qty, unit_price |-> i.unitPrice, name |-> i.name,
   variant |-> IF i.type = "donut" THEN i.variant ELSE Null,
   choices |-> IF i.type = "box" THEN <<i.choices>> ELSE <<>>]

\* C21: the step on which a submission's reservation_items insert succeeds
\* adds to the table exactly one row per line item the submission was made
\* with, in their order, each with the id the submission's reservations
\* insert returned and the item's product id, type, quantity, unit price,
\* name, variant or null and choices or null; the rows of the table with
\* that id are these rows and no row written before is changed.
C21_OneRowPerLineItem ==
  [][(last'.op = "itemsSettles" /\ last'.ok) =>
       LET f     == last'.sub
           items == subs[f].items
           id    == subs[f].reservationId
           n     == Len(reservationItems)
       IN /\ \E a \in ReservationAnswers(f, "ok") : remoteLog[a].id = id
          /\ Len(reservationItems') = n + Len(items)
          /\ SubSeq(reservationItems', 1, n) = reservationItems
          /\ \A k \in 1..Len(items) :
               /\ items[k].type \in {"donut", "box"}
               /\ reservationItems'[n + k] = RowOf(items[k], id)
          /\ RowsIn(reservationItems, id) = 0
          /\ RowsIn(reservationItems', id) = Len(items)]_vars

\* two submissions of a cart with a donut line and a box line have both
\* succeeded: two rows for each of the two reservations
C21_Witness ==
  /\ last.op = "itemsSettles" /\ last.ok
  /\ Len(reservations) = 2
  /\ Len(reservationItems) = 4
  /\ \A id \in {1, 2} :
       /\ RowsIn(reservationItems, id) = 2
       /\ \E k \in 1..4 : /\ reservationItems[k].reservation_id = id
                           /\ reservationItems[k].product_type = "box"
                           /\ reservationItems[k].choices # <<>>
       /\ \E k \in 1..4 : /\ reservationItems[k].reservation_id = id
                           /\ reservationItems[k].product_type = "donut"
                           /\ reservationItems[k].choices = <<>>

Completed == {f \in 1..Len(subs) : subs[f].pc \in {"done", "failed"}}

\* C25: when the backend answers every call, every submission that passed
\* validation comes to its end, whether its inserts succeed or one of them
\* fails, and at its end the busy flag submitting is false.
C25_SubmissionCompletes ==
  \A f \in 1..MaxSubs :
    (f \in InFlight) ~> (f \in Completed /\ ~submitting)

\* a submission has ended on a failed reservations insert and another on a
\* failed reservation_items insert, and the busy flag is down
C25_Witness ==
  /\ ~submitting
  /\ InFlight = {}
  /\ \E f, g \in Completed :
       /\ subs[f].pc = "failed" /\ subs[f].reservationId = NoId
       /\ subs[g].pc = "failed" /\ subs[g].reservationId # NoId
       /\ ItemsErrors(g) # {}

RowPrices(rows) == [k \in 1..Len(rows) |-> rows[k].unit_price * rows[k].qty]

RowsOf(table, id) == SelectSeq(table, LAMBDA r : r.reservation_id = id)

\* C30: for every submission that has issued both inserts, the total_price
\* of the row sent to reservations is the sum of unit_price * qty over the
\* rows sent to reservation_items; and for every stored reservation that has
\* stored rows, its total_price is that sum over its stored rows.
C30_HeaderTotalIsSumOfRows ==
  /\ \A f \in 1..Len(subs) :
       ItemsCalls(f) # {} =>
         \A j \in ItemsCalls(f) :
           CallOf(f, "reservations").rows[1].total_price =
             SumTo(RowPrices(remoteLog[j].rows), Len(remoteLog[j].rows))
  /\ \A k \in 1..Len(reservations) :
       LET rows == RowsOf(reservationItems, reservations[k].id)
       IN rows # <<>> =>
            reservations[k].row.total_price = SumTo(RowPrices(rows), Len(rows))

\* a submission of a donut line of quantity 2 and a box line has stored its
\* reservation with the total 1560 and its two rows
C30_Witness ==
  /\ Len(reservations) = 1
  /\ reservations[1].row.total_price = 1560
  /\ Len(reservationItems) = 2
  /\ \E k \in 1..2 : /\ reservationItems[k].product_type = "donut"
                      /\ reservationItems[k].qty = 2
                      /\ reservationItems[k].unit_price = 180
  /\ \E k \in 1..2 : /\ reservationItems[k].product_type = "box"
                      /\ reservationItems[k].unit_price = 1200
  /\ \A k \in 1..2 : reservationItems[k].reservation_id = reservations[1].id

----------------------------------------------------------------------------
(* Properties of the pickup instant, checked under PickupSpec *)

ReservationCalls ==
  {k \in 1..Len(remoteLog) :
     remoteLog[k].ev = "call" /\ remoteLog[k].table = "reservations"}

\* C17: every reservations insert carries a pickup instant that is not
\* earlier than the instant at which the insert was issued.
C17_PickupNotBeforeSubmission ==
  \A k \in ReservationCalls :
    FromISO(remoteLog[k].rows[1].pickup_at) >= remoteLog[k].at

----------------------------------------------------------------------------
(* Properties of the persistence, checked under PersistSpec *)

\* C11: when the process is restarted after a clear() whose writes, and all
\* writes before them, have settled (in whatever order), the restore that
\* follows leaves the cart empty.
C11_ClearThenRestoreIsEmpty ==
  [][(last'.op \in {"load", "loadNothing", "loadFailed"} /\ last'.afterClear)
       => state'.items = <<>>]_vars

\* C23: once every write the cart's changes have triggered has completed
\* (none is due, none is in flight), the record in storage is the serialized
\* current item list, in whatever order overlapping writes completed.
C23_SettledStorageIsCart ==
  (Alive /\ Settled) => storage = JSONstringify(state.items)

\* the record is the serialized array of at least one line item
IsNonEmptyList(rec) ==
  /\ "text" \in DOMAIN rec
  /\ IsArray(rec.text)
  /\ rec.text # <<>>

\* C29: when the process starts over a record that a completed write left as
\* a non-empty item list, and the user does not change the cart before the
\* restore has run, the restore leaves the cart with exactly that list, same
\* items in the same order with the same quantities, whenever the write of
\* the empty list issued on mount completes.
C29_RoundTrip ==
  [][(/\ last'.op \in {"load", "loadNothing", "loadFailed"}
      /\ IsNonEmptyList(last'.start))
       => state'.items = JSONparse(last'.start)]_vars

BadRecords == {NoRecord, InvalidJSON, JSONstringify(NotArray)}

\* C14: when the record read at the start is missing or is not a serialized
\* array of line items, the cart stays an array of line items, empty until
\* something is added, and the provider keeps rendering.
C14_BadRecordLeavesUsableCart ==
  loadRaw \in BadRecords =>
    /\ IsArray(state.items)
    /\ ctx # Crashed
    /\ last.op \in {"load", "loadNothing", "loadFailed"} => state.items = <<>>

----------------------------------------------------------------------------
(* Properties of the failing storage, checked under FaultSpec *)

\* C24: a write that fails and a read that fails (getItem rejects, or the
\* record does not parse) change nothing but the storage bookkeeping: the
\* item list, the provider's value, the pending updates and the alert stay
\* as they were, so the list is still the result of the last mutation; and
\* every cart operation, after a failure as before it, is enabled and gives
\* the result it gives on that list: addDonut merges or creates, removeItem
\* takes the line out, clear empties the cart.
C24_StorageFailuresStayInside ==
  [][/\ (last'.op = "saveSettles" /\ ~last'.ok) =>
          /\ state' = state /\ nextId' = nextId /\ ctx' = ctx
          /\ pending' = pending /\ saveDue' = saveDue /\ alert' = alert
          /\ storage' = storage
     /\ ((last'.op = "loadSettles" /\ ~last'.ok) \/ last'.op = "loadFailed") =>
          /\ state' = state /\ nextId' = nextId /\ ctx' = ctx
          /\ pending' = pending /\ alert' = alert
          /\ loadPc' = "done"
     /\ last'.op = "addDonut" =>
          IF MatchingLines(state.items, last'.p) # {}
          THEN AddDonutMerges(state.items, state'.items, last'.p)
          ELSE AddDonutCreates(state.items, state'.items, last'.p)
     /\ last'.op = "removeItem" =>
          state'.items = WithoutLine(state.items, last'.id)
     /\ last'.op = "clear" => state'.items = <<>>
     /\ ENABLED clear]_vars

\* every write issued so far has failed, the one of the rendered first
\* addDonut included, and a second addDonut has merged into its line
C24_Witness ==
  /\ last.op = "addDonut"
  /\ storage = NoRecord
  /\ saves = <<>>
  /\ ~saveDue
  /\ Len(ctx.items) = 1
  /\ ctx.items[1].qty = 1
  /\ Len(state.items) = 1
  /\ state.items[1].qty = 2
  /\ state.items[1].id = ctx.items[1].id

====
